---- MODULE Spec2Model ----
(***************************************************************************)
(* Water reminder bot: the Telegram notifier's retry loop                  *)
(* (telegram_notifier.py), the daily reminder scheduler (scheduler.py),    *)
(* configuration validation (config.py) and the application run loop       *)
(* (main.py).                                                              *)
(*                                                                         *)
(* Two specifications:                                                     *)
(*   SpecSend  one send_message() call, one loop iteration per step, for   *)
(*             every max_retries in 0..MaxRetriesBound and every sequence  *)
(*             of per-attempt outcomes;                                    *)
(*   Spec      the application: validate, test send, scheduler set-up,     *)
(*             the poll loop and the shutdown signal.  Every send made by  *)
(*             the application is the same send_message, run to its end.   *)
(***************************************************************************)
EXTENDS Integers, Sequences, FiniteSets, TLC

(***************************************************************************)
(* Bounds of the model                                                     *)
(***************************************************************************)
\* largest max_retries a send_message() call is given in SpecSend
MaxRetriesBound == 3
\* last instant (in hours since midnight of day 0) the clock may reach
MaxClock == 54
\* most hours one time.sleep(MAIN_LOOP_INTERVAL) of a delayed loop may span
MaxSleepAdvance == 4
\* most hours one send_message() call (requests, backoff, rate-limit waits) may span
MaxSendElapsed == 2

(***************************************************************************)
(* telegram_notifier.py: constants                                         *)
(***************************************************************************)
DEFAULT_MAX_RETRIES == 3
STATUS_RATE_LIMITED == 429
STATUS_UNAUTHORIZED == 401
STATUS_BAD_REQUEST == 400
DEFAULT_RETRY_AFTER == 5
TEST_MESSAGE == "Test message - Water Reminder Bot is active!"

(***************************************************************************)
(* scheduler.py: the reminder table.  The key h stands for the time        *)
(* string "hh:00"; instants are counted in hours.                          *)
(***************************************************************************)
HoursPerDay == 24
REMINDER_MESSAGES ==
    (9  :> "Good morning! Time to drink water!") @@
    (12 :> "Lunch time reminder! Stay hydrated!") @@
    (15 :> "Afternoon hydration break!") @@
    (18 :> "Evening water reminder!") @@
    (21 :> "Last call for water today! Good night!")

Messages == {TEST_MESSAGE} \cup {REMINDER_MESSAGES[t] : t \in DOMAIN REMINDER_MESSAGES}

(***************************************************************************)
(* What one HTTP attempt can meet.  exc is the exception requests.post     *)
(* raises ("none": a response came back); status_code, body and the        *)
(* Retry-After header describe the response.                               *)
(***************************************************************************)
NoHeader == [present |-> FALSE, text |-> <<>>]
Header(chars) == [present |-> TRUE, text |-> chars]

\* Retry-After header values: absent, "7", and "1.5" (not an integer)
RetryAfterHeaders == {NoHeader, Header(<<"7">>), Header(<<"1", ".", "5">>)}

Exc(e) == [exc |-> e, status_code |-> 0, body |-> "none", retry_after |-> NoHeader]
Resp(s, b, h) == [exc |-> "none", status_code |-> s, body |-> b, retry_after |-> h]

\* bodies of a response: {"ok": true}, {"ok": false, ...}, JSON that is no object
Bodies == {"ok_true", "ok_false", "not_object"}

Outcomes ==
    {Exc(e) : e \in {"Timeout", "ConnectionError", "RequestException"}}
    \cup {Resp(200, b, NoHeader) : b \in Bodies}
    \cup {Resp(s, "ok_false", NoHeader) : s \in {STATUS_BAD_REQUEST, STATUS_UNAUTHORIZED, 500}}
    \cup {Resp(STATUS_RATE_LIMITED, "ok_false", h) : h \in RetryAfterHeaders}

(***************************************************************************)
(* int(): the decimal value of a string of digits, ValueError otherwise    *)
(***************************************************************************)
Digits == <<"0", "1", "2", "3", "4", "5", "6", "7", "8", "9">>
IsDigit(c) == \E i \in 1..Len(Digits) : Digits[i] = c
DigitVal(c) == (CHOOSE i \in 1..Len(Digits) : Digits[i] = c) - 1

RECURSIVE DecimalValue(_)
DecimalValue(chars) ==
    IF chars = <<>> THEN 0
    ELSE 10 * DecimalValue(SubSeq(chars, 1, Len(chars) - 1)) + DigitVal(chars[Len(chars)])

\* int(x) for x the int default or the header's string
IntOf(h, default) ==
    IF ~h.present THEN [ok |-> TRUE, val |-> default]
    ELSE IF h.text # <<>> /\ \A i \in 1..Len(h.text) : IsDigit(h.text[i])
         THEN [ok |-> TRUE, val |-> DecimalValue(h.text)]
         ELSE [ok |-> FALSE, val |-> 0]

RECURSIVE Pow2(_)
Pow2(n) == IF n = 0 THEN 1 ELSE 2 * Pow2(n - 1)

(***************************************************************************)
(* Results of the helper methods: a return value or a raised exception,    *)
(* with the sleeps performed and the log entries written on the way.       *)
(***************************************************************************)
Sleep(kind, secs) == [kind |-> kind, secs |-> secs]
Return(v, sleeps, logs) == [raised |-> "none", value |-> v, sleeps |-> sleeps, logs |-> logs]
Raise(e, sleeps, logs) == [raised |-> e, value |-> FALSE, sleeps |-> sleeps, logs |-> logs]

\* response.raise_for_status(): HTTPError for a 4xx or 5xx status
RaisesForStatus(status_code) == 400 <= status_code /\ status_code < 600

\* faulty variant: the "ok" flag of the body is not looked at
send_request_IgnoresOk(o) ==
    IF o.exc # "none" THEN Raise(o.exc, <<>>, <<>>)
    ELSE IF RaisesForStatus(o.status_code) THEN Raise("HTTPError", <<>>, <<>>)
    ELSE IF o.body = "not_object" THEN Raise("AttributeError", <<>>, <<>>)
    ELSE Return(TRUE, <<>>, <<"sent">>)

\* faulty variant: a body with ok false raises an exception type of its own
send_request_RaisesOnApiFailure(o) ==
    IF o.exc # "none" THEN Raise(o.exc, <<>>, <<>>)
    ELSE IF RaisesForStatus(o.status_code) THEN Raise("HTTPError", <<>>, <<>>)
    ELSE IF o.body = "not_object" THEN Raise("AttributeError", <<>>, <<>>)
    ELSE IF o.body = "ok_true" THEN Return(TRUE, <<>>, <<"sent">>)
    ELSE Raise("ApiError", <<>>, <<"api_error">>)

\* TelegramNotifier._send_request
send_request(o) ==
    IF o.exc # "none" THEN Raise(o.exc, <<>>, <<>>)
    ELSE IF RaisesForStatus(o.status_code) THEN Raise("HTTPError", <<>>, <<>>)
    ELSE IF o.body = "not_object" THEN Raise("AttributeError", <<>>, <<>>)
    ELSE IF o.body = "ok_true" THEN Return(TRUE, <<>>, <<"sent">>)
    ELSE Return(FALSE, <<>>, <<"api_error">>)

\* faulty variant: HTTP 400 is not singled out and is retried like any other status
handle_http_error_RetriesBadRequest(o, attempt, max_retries) ==
    IF o.status_code = STATUS_RATE_LIMITED THEN
        LET retry_after == IntOf(o.retry_after, DEFAULT_RETRY_AFTER)
        IN  IF retry_after.ok
            THEN Return(TRUE, <<Sleep("rate_limit", retry_after.val)>>, <<"rate_limited">>)
            ELSE Raise("ValueError", <<>>, <<"rate_limited">>)
    ELSE IF o.status_code = STATUS_UNAUTHORIZED THEN Return(FALSE, <<>>, <<"invalid_token">>)
    ELSE Return(attempt < max_retries - 1, <<>>, <<"http_error">>)

\* TelegramNotifier._handle_http_error
handle_http_error(o, attempt, max_retries) ==
    IF o.status_code = STATUS_RATE_LIMITED THEN
        LET retry_after == IntOf(o.retry_after, DEFAULT_RETRY_AFTER)
        IN  IF retry_after.ok
            THEN Return(TRUE, <<Sleep("rate_limit", retry_after.val)>>, <<"rate_limited">>)
            ELSE Raise("ValueError", <<>>, <<"rate_limited">>)
    ELSE IF o.status_code = STATUS_UNAUTHORIZED THEN Return(FALSE, <<>>, <<"invalid_token">>)
    ELSE IF o.status_code = STATUS_BAD_REQUEST THEN Return(FALSE, <<>>, <<"invalid_chat">>)
    ELSE Return(attempt < max_retries - 1, <<>>, <<"http_error">>)

\* faulty variant: the test is attempt < max_retries, so the last attempt backs off too
wait_before_retry_AfterLast(attempt, max_retries) ==
    IF attempt < max_retries
    THEN Return(TRUE, <<Sleep("backoff", Pow2(attempt))>>, <<"retrying">>)
    ELSE Return(TRUE, <<>>, <<>>)

\* TelegramNotifier._wait_before_retry
wait_before_retry(attempt, max_retries) ==
    IF attempt < max_retries - 1
    THEN Return(TRUE, <<Sleep("backoff", Pow2(attempt))>>, <<"retrying">>)
    ELSE Return(TRUE, <<>>, <<>>)

(***************************************************************************)
(* The state of one send_message() call.  attempt is the loop index;       *)
(* outs, sleeps and logs record what the call has met and done so far:     *)
(* outs[k+1] is the outcome of the request of attempt k, every sleep       *)
(* carries the attempt it was made in.                                     *)
(***************************************************************************)
NewSend(message, max_retries) ==
    [message |-> message, max_retries |-> max_retries, attempt |-> 0,
     status |-> "running", result |-> FALSE, raised |-> "none",
     outs |-> <<>>, sleeps |-> <<>>, logs |-> <<>>]

Stamp(sleeps, attempt) ==
    [i \in 1..Len(sleeps) |-> [kind |-> sleeps[i].kind, secs |-> sleeps[i].secs, attempt |-> attempt]]

\* the call returns v
Returned(st, v, sleeps, logs) ==
    [st EXCEPT !.status = "returned", !.result = v,
               !.sleeps = @ \o Stamp(sleeps, st.attempt), !.logs = @ \o logs]

\* an exception leaves the call
Raised(st, e, sleeps, logs) ==
    [st EXCEPT !.status = "raised", !.raised = e,
               !.sleeps = @ \o Stamp(sleeps, st.attempt), !.logs = @ \o logs]

\* the loop goes on to the next index
Continue(st, sleeps, logs) ==
    [st EXCEPT !.attempt = @ + 1,
               !.sleeps = @ \o Stamp(sleeps, st.attempt), !.logs = @ \o logs]

\* faulty variant: a rate-limited attempt is repeated at the same loop index
LoopBody_RateLimitKeepsIndex(st0, o) ==
    LET st   == [st0 EXCEPT !.outs = Append(@, o)]
        req  == send_request(o)
        wait == wait_before_retry(st.attempt, st.max_retries)
    IN  IF req.raised = "none" THEN
            IF req.value THEN Returned(st, TRUE, <<>>, req.logs)
            ELSE Continue(st, wait.sleeps, req.logs \o wait.logs)
        ELSE IF req.raised = "Timeout" THEN
            Continue(st, wait.sleeps, <<"timeout">> \o wait.logs)
        ELSE IF req.raised = "ConnectionError" THEN
            Continue(st, wait.sleeps, <<"connection_error">> \o wait.logs)
        ELSE IF req.raised = "HTTPError" THEN
            LET h == handle_http_error(o, st.attempt, st.max_retries)
            IN  IF h.raised # "none" THEN Raised(st, h.raised, h.sleeps, h.logs)
                ELSE IF ~h.value THEN Returned(st, FALSE, h.sleeps, h.logs)
                ELSE IF o.status_code = STATUS_RATE_LIMITED
                THEN [st EXCEPT !.sleeps = @ \o Stamp(h.sleeps, st.attempt),
                                !.logs = @ \o h.logs]
                ELSE Continue(st, h.sleeps \o wait.sleeps, h.logs \o wait.logs)
        ELSE IF req.raised = "RequestException" THEN
            Continue(st, wait.sleeps, <<"request_error">> \o wait.logs)
        ELSE Raised(st, req.raised, <<>>, <<>>)

\* send_message, lines 63-78: the body of the for loop at index st.attempt
LoopBody(st0, o) ==
    LET st   == [st0 EXCEPT !.outs = Append(@, o)]
        req  == send_request(o)
        wait == wait_before_retry(st.attempt, st.max_retries)
    IN  IF req.raised = "none" THEN
            IF req.value THEN Returned(st, TRUE, <<>>, req.logs)
            ELSE Continue(st, wait.sleeps, req.logs \o wait.logs)
        ELSE IF req.raised = "Timeout" THEN
            Continue(st, wait.sleeps, <<"timeout">> \o wait.logs)
        ELSE IF req.raised = "ConnectionError" THEN
            Continue(st, wait.sleeps, <<"connection_error">> \o wait.logs)
        ELSE IF req.raised = "HTTPError" THEN
            LET h == handle_http_error(o, st.attempt, st.max_retries)
            IN  IF h.raised # "none" THEN Raised(st, h.raised, h.sleeps, h.logs)
                ELSE IF ~h.value THEN Returned(st, FALSE, h.sleeps, h.logs)
                ELSE Continue(st, h.sleeps \o wait.sleeps, h.logs \o wait.logs)
        ELSE IF req.raised = "RequestException" THEN
            Continue(st, wait.sleeps, <<"request_error">> \o wait.logs)
        ELSE Raised(st, req.raised, <<>>, <<>>)

\* send_message, lines 80-81: the loop is exhausted
Exhausted(st) == Returned(st, FALSE, <<>>, <<"failed_after">>)

\* send_message run to its end on the outcomes outs, one per attempt
RECURSIVE RunSend(_, _)
RunSend(st, outs) ==
    IF st.status # "running" THEN st
    ELSE IF st.attempt >= st.max_retries THEN Exhausted(st)
    ELSE RunSend(LoopBody(st, Head(outs)), Tail(outs))

send_message(message, max_retries, outs) == RunSend(NewSend(message, max_retries), outs)

(***************************************************************************)
(* What the caller of send_message() sees of a finished call               *)
(***************************************************************************)
Summary(st) ==
    [message |-> st.message, status |-> st.status, result |-> st.result,
     raised |-> st.raised]

\* every way a send_message(message) call with the default max_retries can end
SendResults ==
    [m \in Messages |->
        {Summary(send_message(m, DEFAULT_MAX_RETRIES, outs)) :
            outs \in [1..DEFAULT_MAX_RETRIES -> Outcomes]}]

\* TelegramNotifier.test_connection
test_connection == SendResults[TEST_MESSAGE]

(***************************************************************************)
(* config.py                                                               *)
(***************************************************************************)
ENV_BOT_TOKEN == "TELEGRAM_BOT_TOKEN"
ENV_CHAT_ID == "TELEGRAM_CHAT_ID"

\* os.getenv: None when the variable is not set, its string otherwise
Unset == [set |-> FALSE, value |-> ""]
Env(s) == [set |-> TRUE, value |-> s]
EnvValues == {Unset, Env(""), Env("secret")}

\* faulty variant: only None counts as missing, an empty string passes
Truthy_NotNone(v) == v.set

\* Python truth of an optional string
Truthy(v) == v.set /\ v.value # ""

\* Config.validate: the list of error messages (empty: validation succeeds)
validate(token, chat) ==
    (IF ~Truthy(token) THEN <<ENV_BOT_TOKEN>> ELSE <<>>)
    \o (IF ~Truthy(chat) THEN <<ENV_CHAT_ID>> ELSE <<>>)

(***************************************************************************)
(* The schedule library's daily job, as scheduler.py uses it               *)
(* (schedule.every().day.at(time_str).do(...), schedule.run_pending()).    *)
(* Instants are hours since midnight of day 0; the instant h stands for    *)
(* the wall-clock interval [h, h+1).                                       *)
(***************************************************************************)
TimeOfDay(now) == now % HoursPerDay
DayOf(now) == now \div HoursPerDay

\* faulty variant: the job is always put on the day after now
schedule_next_run_NextDay(at_time, now) ==
    DayOf(now + HoursPerDay) * HoursPerDay + at_time

\* faulty variant: a time of day that has just been reached still counts as ahead
schedule_next_run_AtOrAfter(at_time, now) ==
    LET next_run == DayOf(now + HoursPerDay) * HoursPerDay + at_time
    IN  IF at_time >= TimeOfDay(now) THEN next_run - HoursPerDay ELSE next_run

\* Job._schedule_next_run for every().day.at(at_time): now + 1 day, moved to
\* at_time, and one day earlier when at_time is still ahead today
schedule_next_run(at_time, now) ==
    LET next_run == DayOf(now + HoursPerDay) * HoursPerDay + at_time
    IN  IF at_time > TimeOfDay(now) THEN next_run - HoursPerDay ELSE next_run

\* WaterReminderScheduler._setup_schedule: one job per table entry
setup_schedule(now) ==
    [time_str \in DOMAIN REMINDER_MESSAGES |-> schedule_next_run(time_str, now)]

\* Job.should_run
should_run(next_run, now) == now >= next_run

\* sorted(runnable_jobs): the due jobs by next_run (Job.__lt__)
RECURSIVE SortedByNextRun(_, _)
SortedByNextRun(js, due) ==
    IF due = {} THEN <<>>
    ELSE LET first == CHOOSE j \in due : \A k \in due : js[j] <= js[k]
         IN  <<first>> \o SortedByNextRun(js, due \ {first})

\* Scheduler.run_pending: the jobs this poll will run, in order
run_pending(js, now) ==
    SortedByNextRun(js, {j \in DOMAIN js : should_run(js[j], now)})

\* faulty variant: a failed delivery is raised instead of logged
send_reminder_RaisesOnFailure(r) ==
    [raised |-> IF r.status = "raised" THEN r.raised
                ELSE IF r.result THEN "none" ELSE "RuntimeError",
     log |-> IF r.status = "returned" /\ r.result THEN "Reminder sent successfully"
             ELSE "none"]

\* WaterReminderScheduler._send_reminder: logs the outcome, returns None;
\* an exception of send_message passes through
send_reminder(r) ==
    [raised |-> IF r.status = "raised" THEN r.raised ELSE "none",
     log |-> IF r.status = "raised" THEN "none"
             ELSE IF r.result THEN "Reminder sent successfully"
             ELSE "Failed to send reminder"]

\* faulty variant: the first job of the table is described, not the soonest
get_next_reminder_FirstEntry(js) ==
    IF DOMAIN js = {} THEN [text |-> "No reminders scheduled", time |-> <<>>]
    ELSE LET first == CHOOSE j \in DOMAIN js : \A k \in DOMAIN js : j <= k
         IN  [text |-> "Next reminder at", time |-> <<TimeOfDay(js[first]), 0>>]

\* WaterReminderScheduler.get_next_reminder: schedule.next_run() is the next_run
\* of the least job, None without jobs; time is its strftime('%H:%M')
get_next_reminder(js) ==
    IF DOMAIN js = {} THEN [text |-> "No reminders scheduled", time |-> <<>>]
    ELSE LET next_run == CHOOSE n \in {js[j] : j \in DOMAIN js} :
                             \A j \in DOMAIN js : n <= js[j]
         IN  [text |-> "Next reminder at", time |-> <<TimeOfDay(next_run), 0>>]

(***************************************************************************)
(* State                                                                   *)
(***************************************************************************)
VARIABLES
    snd,        \* the send_message() call of SpecSend
    pc,         \* where WaterReminderApp.start() is
    running,    \* WaterReminderApp.running
    clock,      \* local wall-clock time, in hours since midnight of day 0
    config,     \* Config.TELEGRAM_BOT_TOKEN, Config.TELEGRAM_CHAT_ID
    notifier,   \* the TelegramNotifier start() made
    jobs,       \* the schedule library's registry: job (its time of day) -> next_run
    runnable,   \* the jobs the poll in progress has still to run
    poll,       \* history: the poll in progress or last made
    last,       \* history: the last send_message() call start() or a job made
    exc,        \* the exception that reached start(), if any
    trail,      \* history: the start-up steps start() has completed, in order
    signalled   \* history: _signal_handler has run

vars == <<snd, pc, running, clock, config, notifier, jobs, runnable, poll, last, exc, trail, signalled>>
appVars == <<pc, running, clock, config, notifier, jobs, runnable, poll, last, exc, trail, signalled>>

NoJobs == [j \in {} |-> 0]
NoNotifier == [made |-> FALSE, bot_token |-> "", chat_id |-> "", api_url |-> <<>>]
NoPoll == [polls |-> FALSE, start |-> 0, due |-> {}, sent |-> <<>>]
NoSend == [caller |-> "none", job |-> 0, due |-> 0, t0 |-> 0, t1 |-> 0,
           message |-> "", status |-> "none", result |-> FALSE, raised |-> "none"]
NoExc == [type |-> "none", source |-> "none", errors |-> <<>>]

BASE_API_URL == "https://api.telegram.org/bot"

\* TelegramNotifier.__init__
TelegramNotifier(bot_token, chat_id) ==
    [made |-> TRUE, bot_token |-> bot_token, chat_id |-> chat_id,
     api_url |-> <<BASE_API_URL, bot_token, "/sendMessage">>]

\* the record of a send_message() call made at t0 that ended at t1; for a job's
\* call, due is the job's next_run when it was fired
SendRecord(caller, job, due, t0, t1, r) ==
    [caller |-> caller, job |-> job, due |-> due, t0 |-> t0, t1 |-> t1,
     message |-> r.message, status |-> r.status, result |-> r.result,
     raised |-> r.raised]

(***************************************************************************)
(* Initial states; SpecSend: one send_message() call, step by step         *)
(***************************************************************************)
AppInit ==
    /\ pc = "validate"
    /\ running = FALSE
    /\ clock \in 0..(HoursPerDay - 1)
    /\ config \in [token : EnvValues, chat : EnvValues]
    /\ notifier = NoNotifier
    /\ jobs = NoJobs
    /\ runnable = <<>>
    /\ poll = NoPoll
    /\ last = NoSend
    /\ exc = NoExc
    /\ trail = <<>>
    /\ signalled = FALSE

InitSend ==
    /\ \E m \in Messages, r \in 0..MaxRetriesBound : snd = NewSend(m, r)
    /\ pc = "validate" /\ running = FALSE /\ clock = 0
    /\ config = [token |-> Unset, chat |-> Unset]
    /\ notifier = NoNotifier /\ jobs = NoJobs /\ runnable = <<>>
    /\ poll = NoPoll /\ last = NoSend /\ exc = NoExc /\ trail = <<>>
    /\ signalled = FALSE

\* one iteration of the for loop
SendAttempt ==
    /\ snd.status = "running"
    /\ snd.attempt < snd.max_retries
    /\ \E o \in Outcomes : snd' = LoopBody(snd, o)
    /\ UNCHANGED appVars

\* the for loop ends without a return
SendExhausted ==
    /\ snd.status = "running"
    /\ snd.attempt >= snd.max_retries
    /\ snd' = Exhausted(snd)
    /\ UNCHANGED appVars

NextSend == SendAttempt \/ SendExhausted

SpecSend == InitSend /\ [][NextSend]_vars

(***************************************************************************)
(* Spec: the application                                                   *)
(***************************************************************************)
Init ==
    /\ snd = NewSend(TEST_MESSAGE, DEFAULT_MAX_RETRIES)
    /\ AppInit

\* an exception leaves start()'s try block: logged, the application stops
\* (a ValueError, also one raised by a send, by the `except ValueError` clause,
\* anything else by `except Exception`); source is the call that raised it
Stop(raised, source, errors) ==
    /\ pc' = "stopped"
    /\ exc' = [type |-> IF raised = "ValueError" THEN "ValueError" ELSE "Exception",
               source |-> source, errors |-> errors]

\* start(): _validate_configuration
Validate ==
    /\ pc = "validate"
    /\ LET errors == validate(config.token, config.chat)
       IN  IF errors # <<>> THEN Stop("ValueError", "validate", errors)
           ELSE pc' = "init_notifier" /\ exc' = exc
    /\ UNCHANGED <<snd, running, clock, config, notifier, jobs, runnable, poll, last, signalled>>
    /\ trail' = IF validate(config.token, config.chat) = <<>> THEN Append(trail, "validate_ok") ELSE trail

\* faulty variant: the notifier is used whatever the test send returned
AfterNotifier_NoCheck(r) == "init_scheduler"

\* start(), lines 65-67: _initialize_notifier returns the notifier when the test
\* send returned true and None otherwise, and start() returns on None
AfterNotifier(r) == IF r.result THEN "init_scheduler" ELSE "stopped"

\* start(): _initialize_notifier, with its test send
InitializeNotifier ==
    /\ pc = "init_notifier"
    /\ notifier' = TelegramNotifier(config.token.value, config.chat.value)
    /\ \E r \in test_connection, d \in 0..MaxSendElapsed :
        /\ clock + d <= MaxClock
        /\ clock' = clock + d
        /\ last' = SendRecord("test", 0, 0, clock, clock', r)
        /\ IF r.status = "raised" THEN Stop(r.raised, "send_message", <<r.raised>>)
           ELSE /\ pc' = AfterNotifier(r)
                /\ exc' = exc
    /\ UNCHANGED <<snd, running, config, jobs, runnable, poll, signalled>>
    /\ trail' = Append(trail, IF last'.status = "raised" THEN "test_raised" ELSE IF last'.result THEN "test_true" ELSE "test_false")

\* start(): _initialize_scheduler
InitializeScheduler ==
    /\ pc = "init_scheduler"
    /\ jobs' = setup_schedule(clock)
    /\ pc' = "main_loop"
    /\ UNCHANGED <<snd, running, clock, config, notifier, runnable, poll, last, exc, signalled>>
    /\ trail' = Append(trail, "scheduler_created")

\* _run_main_loop, lines 133-134
EnterMainLoop ==
    /\ pc = "main_loop"
    /\ running' = TRUE
    /\ pc' = "while"
    /\ UNCHANGED <<snd, clock, config, notifier, jobs, runnable, poll, last, exc, trail, signalled>>

\* _run_main_loop: the while test holds, run_pending() picks the due jobs
PollBegin ==
    /\ pc = "while"
    /\ running
    /\ runnable' = run_pending(jobs, clock)
    /\ poll' = [polls |-> TRUE, start |-> clock,
                due |-> {j \in DOMAIN jobs : jobs[j] <= clock}, sent |-> <<>>]
    /\ pc' = IF runnable' = <<>> THEN "sleep" ELSE "run_job"
    /\ UNCHANGED <<snd, running, clock, config, notifier, jobs, last, exc, signalled>>
    /\ trail' = IF poll.polls THEN trail ELSE Append(trail, "first_poll")

\* faulty variant: the run of one job reschedules every job
job_run_ReschedulesAll(js, job, now) == [k \in DOMAIN js |-> schedule_next_run(k, now)]

\* run_pending(): what Job.run does once the job function has returned: the
\* job that ran, and no other, gets its next run
job_run(js, job, now) == [js EXCEPT ![job] = schedule_next_run(job, now)]

\* run_pending(): Job.run of the next due job: _send_reminder, then reschedule
RunJob ==
    /\ pc = "run_job"
    /\ LET job == Head(runnable)
       IN  \E r \in SendResults[REMINDER_MESSAGES[job]], d \in 0..MaxSendElapsed :
            /\ clock + d <= MaxClock
            /\ clock' = clock + d
            /\ last' = SendRecord("job", job, jobs[job], clock, clock', r)
            /\ poll' = [poll EXCEPT !.sent = Append(@, job)]
            /\ IF send_reminder(r).raised # "none"
               THEN /\ Stop(send_reminder(r).raised, "send_message", <<send_reminder(r).raised>>)
                    /\ UNCHANGED <<jobs, runnable>>
               ELSE /\ jobs' = job_run(jobs, job, clock')
                    /\ runnable' = Tail(runnable)
                    /\ pc' = IF runnable' = <<>> THEN "sleep" ELSE "run_job"
                    /\ exc' = exc
    /\ UNCHANGED <<snd, running, config, notifier, trail, signalled>>

\* _run_main_loop: time.sleep(MAIN_LOOP_INTERVAL)
LoopSleep ==
    /\ pc = "sleep"
    /\ \E d \in 0..MaxSleepAdvance :
        /\ clock + d <= MaxClock
        /\ clock' = clock + d
    /\ pc' = "while"
    /\ UNCHANGED <<snd, running, config, notifier, jobs, runnable, poll, last, exc, trail, signalled>>

\* _run_main_loop: the while test fails, start() ends
LoopExit ==
    /\ pc = "while"
    /\ ~running
    /\ pc' = "stopped"
    /\ UNCHANGED <<snd, running, clock, config, notifier, jobs, runnable, poll, last, exc, trail, signalled>>

\* _signal_handler, on SIGINT or SIGTERM
SignalHandler ==
    /\ pc # "stopped"
    /\ running' = FALSE
    /\ signalled' = TRUE
    /\ UNCHANGED <<snd, pc, clock, config, notifier, jobs, runnable, poll, last, exc, trail>>

Next ==
    \/ Validate
    \/ InitializeNotifier
    \/ InitializeScheduler
    \/ EnterMainLoop
    \/ PollBegin
    \/ RunJob
    \/ LoopSleep
    \/ LoopExit
    \/ SignalHandler

Spec == Init /\ [][Next]_vars


(***************************************************************************)
(* SpecLive: the application whose main thread keeps running.  start() and *)
(* the loop of _run_main_loop execute on the one thread of the process,    *)
(* which takes its next step whenever it has one; the arrival of a signal  *)
(* is not required.                                                        *)
(***************************************************************************)
MainThread ==
    \/ Validate
    \/ InitializeNotifier
    \/ InitializeScheduler
    \/ EnterMainLoop
    \/ PollBegin
    \/ RunJob
    \/ LoopSleep
    \/ LoopExit

SpecLive == Init /\ [][Next]_vars /\ WF_vars(MainThread)


(***************************************************************************)
(* Properties of send_message (checked under SpecSend)                     *)
(***************************************************************************)
Is2xx(o) == o.exc = "none" /\ o.status_code \in 200..299
IsOkTrue(o) == Is2xx(o) /\ o.body = "ok_true"
IsFatalStatus(o) == o.exc = "none" /\ o.status_code \in {401, 400}
IsRateLimited(o) == o.exc = "none" /\ o.status_code = 429
\* timeout, connection failure, another non-2xx status, 2xx with ok false
IsRetryableFailure(o) ==
    \/ o.exc \in {"Timeout", "ConnectionError"}
    \/ Is2xx(o) /\ o.body = "ok_false"
    \/ o.exc = "none" /\ o.status_code \notin (200..299) \cup {429, 401, 400}

Requests == Len(snd.outs)
\* the sleeps made in attempt a or later
SleepsFrom(a) == {i \in 1..Len(snd.sleeps) : snd.sleeps[i].attempt >= a}
\* the sleeps made in attempt a
SleepsAt(a) ==
    LET InAttempt(s) == s.attempt = a IN SelectSeq(snd.sleeps, InAttempt)
Secs(sleeps) == [i \in 1..Len(sleeps) |-> sleeps[i].secs]
RECURSIVE Total(_)
Total(ns) == IF ns = <<>> THEN 0 ELSE Head(ns) + Total(Tail(ns))

C2_FatalStatusReturnsFalse ==
    \A k \in 1..Requests :
        IsFatalStatus(snd.outs[k]) =>
            /\ k = Requests
            /\ snd.status = "returned" /\ ~snd.result
            /\ SleepsFrom(k - 1) = {}
            /\ k = 1 => (Requests = 1 /\ snd.sleeps = <<>>)

\* C2 witness: HTTP 400 on the second attempt, after a retried timeout
C2_Witness ==
    /\ Requests = 2
    /\ snd.outs[1].exc = "Timeout"
    /\ snd.outs[2].exc = "none" /\ snd.outs[2].status_code = 400
    /\ snd.status = "returned"

\* C3: an attempt that receives HTTP 429 is always followed by another
\* attempt; a 429 never makes send() return false.
C3_RateLimitAlwaysRetried ==
    \A k \in 1..Requests :
        IsRateLimited(snd.outs[k]) => ~(snd.status = "returned" /\ k = Requests)

\* the wait the server asks for: the Retry-After seconds, 5 without the header
ClaimedWait(o) ==
    IF o.retry_after.present THEN DecimalValue(o.retry_after.text) ELSE 5

\* C4: between an attempt that received HTTP 429 and the next attempt, the
\* time slept is exactly the server's retry-after value (5 s by default):
\* no exponential backoff sleep is added.
C4_RateLimitWaitExact ==
    \A k \in 1..Requests :
        (IsRateLimited(snd.outs[k]) /\ k < Requests) =>
            /\ Total(Secs(SleepsAt(k - 1))) = ClaimedWait(snd.outs[k])
            /\ \A i \in 1..Len(snd.sleeps) :
                  snd.sleeps[i].attempt = k - 1 => snd.sleeps[i].kind # "backoff"

\* C5: a retryable non-rate-limit failure of attempt a is followed by one
\* sleep of 2^a seconds and attempt a+1 when a < max_retries - 1, and by no
\* sleep when a is the final attempt.  A send whose attempts all fail this
\* way returns false after max_retries attempts and the sleeps 1, 2, ...,
\* 2^(max_retries-2); one that first succeeds on attempt j returns true
\* after the sleeps 1, 2, ..., 2^(j-1).
C5_BackoffSchedule ==
    /\ \A k \in 1..Requests :
          IsRetryableFailure(snd.outs[k]) =>
              IF k - 1 < snd.max_retries - 1
              THEN /\ Secs(SleepsAt(k - 1)) = <<2 ^ (k - 1)>>
                   /\ SleepsAt(k - 1)[1].kind = "backoff"
                   /\ \/ Requests > k
                      \/ snd.status = "running" /\ snd.attempt = k
              ELSE /\ SleepsAt(k - 1) = <<>>
                   /\ Requests = k
                   /\ \/ snd.status = "running" /\ snd.attempt = snd.max_retries
                      \/ snd.status = "returned" /\ ~snd.result
    /\ (/\ snd.status = "returned"
        /\ \A k \in 1..Requests : IsRetryableFailure(snd.outs[k])) =>
            /\ ~snd.result
            /\ Requests = snd.max_retries
            /\ Secs(snd.sleeps) = [i \in 1..(snd.max_retries - 1) |-> 2 ^ (i - 1)]
    /\ (/\ snd.status = "returned" /\ snd.result
        /\ \A k \in 1..(Requests - 1) : IsRetryableFailure(snd.outs[k])) =>
            Secs(snd.sleeps) = [i \in 1..(Requests - 1) |-> 2 ^ (i - 1)]

\* C5 witness: three attempts answered HTTP 500, sleeps of 1 s and 2 s
C5_Witness ==
    /\ snd.max_retries = 3 /\ Requests = 3
    /\ \A k \in 1..3 : snd.outs[k].exc = "none" /\ snd.outs[k].status_code = 500
    /\ snd.status = "returned" /\ ~snd.result
    /\ Secs(snd.sleeps) = <<1, 2>>

\* C6: send() never raises: whatever the attempts meet, it ends by
\* returning a boolean.
C6_SendNeverRaises == snd.status # "raised"

(***************************************************************************)
(* Properties of the scheduler (checked under Spec)                        *)
(***************************************************************************)
JobSend == last.caller = "job"
JobSendReturned == JobSend /\ last.status = "returned"
\* the job's time of day on the given day
OnDay(day, job) == day * HoursPerDay + job

C8_InitialNextFire ==
    /\ pc \in {"validate", "init_notifier", "init_scheduler"} => jobs = NoJobs
    /\ pc = "main_loop" =>
          /\ DOMAIN jobs = DOMAIN REMINDER_MESSAGES
          /\ \A t \in DOMAIN REMINDER_MESSAGES :
                jobs[t] = IF TimeOfDay(clock) < t
                          THEN OnDay(DayOf(clock), t)
                          ELSE OnDay(DayOf(clock) + 1, t)
          /\ ~JobSend /\ poll = NoPoll

\* C8 witness: constructed at 10 o'clock: 09:00 is tomorrow, 12:00 today
C8_Witness ==
    /\ pc = "main_loop" /\ clock = 10
    /\ jobs[9] = 33 /\ jobs[12] = 12

\* C9: when a due job's delivery returns false, no exception reaches the
\* run loop and the scheduler is not stopped, the job is rescheduled as
\* after a success, and send() is not called for it again before that
\* next-fire instant, of a later day than the one fired, has passed.
C9_FailedDeliveryReschedules ==
    /\ JobSend => last.due <= last.t0
    /\ (JobSendReturned /\ ~last.result) =>
          /\ exc = NoExc
          /\ pc = "stopped" => ~running
          /\ jobs[last.job] > last.t1
          /\ jobs[last.job] >= last.due + HoursPerDay
          /\ jobs[last.job] = schedule_next_run(last.job, last.t1)
          /\ \A i \in 1..Len(runnable) : runnable[i] # last.job
          /\ Cardinality({i \in 1..Len(poll.sent) : poll.sent[i] = last.job}) <= 1

\* C9 witness: a failed delivery, and the poll goes on to its next due job
C9_Witness ==
    /\ JobSendReturned /\ ~last.result
    /\ pc = "run_job"

\* C10: in every poll, send() is called exactly once for each job whose
\* next-fire instant is at or before the time of the poll and for no other
\* job.
C10_EachDueJobSentOnce ==
    /\ \A i \in 1..Len(poll.sent) :
          /\ poll.sent[i] \in poll.due
          /\ \A k \in 1..Len(poll.sent) : poll.sent[k] = poll.sent[i] => k = i
    /\ (poll.polls /\ pc # "run_job") => {poll.sent[i] : i \in 1..Len(poll.sent)} = poll.due


\* C11: in every scheduler state the description names the least next-fire
\* instant over all jobs, and is the "No reminders scheduled" sentinel exactly
\* when there are no jobs.
C11_DescribesSoonest ==
    LET d == get_next_reminder(jobs)
    IN  /\ d.text = "No reminders scheduled" <=> DOMAIN jobs = {}
        /\ DOMAIN jobs # {} =>
              \E j \in DOMAIN jobs :
                  /\ \A k \in DOMAIN jobs : jobs[j] <= jobs[k]
                  /\ d = [text |-> "Next reminder at", time |-> <<jobs[j] % 24, 0>>]

\* C11 witness: the 09:00 job has fired, the soonest job is the one at 12:00
C11_Witness ==
    /\ DOMAIN jobs # {}
    /\ jobs[9] > jobs[12]
    /\ get_next_reminder(jobs).time = <<12, 0>>


\* a credential is absent or empty
Missing(v) == ~v.set \/ v.value = ""
MissingCount == (IF Missing(config.token) THEN 1 ELSE 0) + (IF Missing(config.chat) THEN 1 ELSE 0)
ValidationFailed == exc.source = "validate"

\* C12: validation fails if and only if the bot token or the chat identifier
\* is absent or empty, with one error message per missing credential; when
\* it fails no Notifier is made, no request is sent, the scheduler is never
\* created or polled, and the application stops.
C12_ValidationFailsIffMissing ==
    /\ pc # "validate" =>
          (ValidationFailed <=> (Missing(config.token) \/ Missing(config.chat)))
    /\ ValidationFailed =>
          /\ exc.type = "ValueError"
          /\ Len(exc.errors) = MissingCount
          /\ Missing(config.token) <=> \E i \in 1..Len(exc.errors) : exc.errors[i] = "TELEGRAM_BOT_TOKEN"
          /\ Missing(config.chat) <=> \E i \in 1..Len(exc.errors) : exc.errors[i] = "TELEGRAM_CHAT_ID"
          /\ pc = "stopped"
          /\ notifier = NoNotifier
          /\ last = NoSend
          /\ jobs = NoJobs /\ poll = NoPoll /\ ~running

\* C12 witness: the token is empty and the chat identifier is not set
C12_Witness ==
    /\ config.token = Env("") /\ config.chat = Unset
    /\ ValidationFailed /\ Len(exc.errors) = 2
    /\ pc = "stopped"


Done(step) == \E i \in 1..Len(trail) : trail[i] = step
\* step a was completed, and before step b
Before(a, b) ==
    \A i \in 1..Len(trail) : trail[i] = b => \E k \in 1..(i - 1) : trail[k] = a

\* C13: the scheduler is created and first polled only after validation
\* succeeded and then the test send returned true; when the test send returns
\* false the application stops without creating the scheduler, polling or
\* sending a reminder.
C13_StartupOrder ==
    /\ jobs # NoJobs <=> Done("scheduler_created")
    /\ poll.polls <=> Done("first_poll")
    /\ JobSend => Done("first_poll")
    /\ Before("validate_ok", "test_true")
    /\ Before("test_true", "scheduler_created")
    /\ Before("scheduler_created", "first_poll")
    /\ Done("validate_ok") => ~Missing(config.token) /\ ~Missing(config.chat)
    /\ (Done("test_false") \/ Done("test_raised")) =>
          /\ pc = "stopped"
          /\ ~Done("test_true")
          /\ jobs = NoJobs /\ ~poll.polls
          /\ last.caller = "test"
          /\ ~running

\* C13 witness: the test send returned false and the application has stopped
C13_Witness ==
    /\ Done("test_false")
    /\ last.caller = "test" /\ last.status = "returned" /\ ~last.result
    /\ pc = "stopped"


(***************************************************************************)
(* Further properties of send_message (checked under SpecSend)             *)
(***************************************************************************)
Logged(entry) == \E i \in 1..Len(snd.logs) : snd.logs[i] = entry

\* C14: whenever send() returns false with all max_retries attempts used and
\* none successful, whatever the failure of the final attempt (timeout,
\* connection failure, 2xx with ok false, a status such as 500), the entry
\* "Failed to send message after N attempts" has been logged.
C14_FinalFailureLogged ==
    (/\ snd.status = "returned" /\ ~snd.result
     /\ Requests = snd.max_retries
     /\ Requests >= 1 => ~IsFatalStatus(snd.outs[Requests])) =>
        /\ Logged("failed_after")
        /\ snd.logs[Len(snd.logs)] = "failed_after"


IsApiFailure(o) == Is2xx(o) /\ o.body = "ok_false"
IsConnectionFailure(o) == o.exc = "ConnectionError"

\* the outcomes outs with those at the positions S replaced by a 2xx response
\* whose body reports ok = false
WithApiFailureAt(outs, S) ==
    [k \in 1..Len(outs) |-> IF k \in S THEN Resp(200, "ok_false", NoHeader) ELSE outs[k]]

\* outcomes for the attempts a call may make beyond those of a given sequence
MoreOutcomes == [k \in 1..(MaxRetriesBound + 1) |-> Exc("Timeout")]

\* C15: a 2xx response with ok = false is handled like a generic retryable
\* attempt failure: it consumes one attempt, is followed by the 2^attempt
\* backoff and the next attempt when it is not the final attempt, never ends
\* send() early, and replacing connection failures of an outcome sequence by
\* such responses leaves result, number of attempts and sleeps unchanged.
C15_ApiFailureLikeConnectionFailure ==
    /\ \A k \in 1..Requests :
          IsApiFailure(snd.outs[k]) =>
              /\ Secs(SleepsAt(k - 1)) =
                    IF k < snd.max_retries THEN <<Pow2(k - 1)>> ELSE <<>>
              /\ \A i \in 1..Len(SleepsAt(k - 1)) : SleepsAt(k - 1)[i].kind = "backoff"
              /\ k = Requests =>
                    /\ snd.attempt = k
                    /\ snd.status = "running" \/ k = snd.max_retries
                    /\ snd.status # "running" =>
                          snd.status = "returned" /\ ~snd.result
    /\ snd.status # "running" =>
          \A S \in SUBSET {k \in 1..Requests : IsConnectionFailure(snd.outs[k])} :
              LET alt == send_message(snd.message, snd.max_retries,
                                      WithApiFailureAt(snd.outs, S) \o MoreOutcomes)
              IN  /\ alt.status = snd.status
                  /\ alt.result = snd.result
                  /\ alt.raised = snd.raised
                  /\ Len(alt.outs) = Requests
                  /\ alt.sleeps = snd.sleeps

\* C15 witness: a finished send whose first attempt met a connection failure
\* and whose second, not final, attempt met a 2xx response with ok = false
C15_Witness ==
    /\ snd.status # "running"
    /\ snd.max_retries = 3 /\ Requests = 3
    /\ IsConnectionFailure(snd.outs[1])
    /\ IsApiFailure(snd.outs[2])


(***************************************************************************)
(* Further properties of the application                                   *)
(***************************************************************************)
JobKeys == DOMAIN REMINDER_MESSAGES
\* the job's next-fire instant has passed
Due(j) == jobs # NoJobs /\ jobs[j] <= clock
\* a signal has asked the loop to stop, so poll() is no longer called
LoopStopRequested == pc \in {"while", "run_job", "sleep", "stopped"} /\ ~running
\* send() has just been called for the occurrence of job j that is due
SentFor(j) == last.caller = "job" /\ last.job = j /\ last.due = jobs[j]
\* this step fires job j: its next-fire instant moves
Fires(j) == jobs # NoJobs /\ jobs' # NoJobs /\ jobs'[j] # jobs[j]

\* C16: no reminder is skipped or coalesced.  As long as no shutdown is
\* requested, every job whose next-fire instant has passed is eventually
\* fired by a poll; every firing is a delivery of its own, for the instant
\* that passed and with the job's message, and when it is detected before
\* the job's following daily occurrence the job moves to that occurrence.
C16_NoReminderSkipped ==
    /\ \A j \in JobKeys : Due(j) ~> (~Due(j) \/ SentFor(j) \/ LoopStopRequested)
    /\ [][\A j \in JobKeys :
            Fires(j) =>
                /\ Due(j)
                /\ last' # last
                /\ last'.caller = "job" /\ last'.job = j /\ last'.due = jobs[j]
                /\ last'.message = REMINDER_MESSAGES[j]
                /\ \A k \in JobKeys \ {j} : ~Fires(k)
                /\ clock' < jobs[j] + HoursPerDay => jobs'[j] = jobs[j] + HoursPerDay]_vars


\* this step is the run of a due job by poll()
FiringStep == Len(poll'.sent) = Len(poll.sent) + 1
Fired == poll'.sent[Len(poll'.sent)]

\* C17: firing a job changes only that job: the next-fire instant of every
\* other job, the Notifier's credentials and target URL and the
\* configuration are left unchanged, and the message passed to send() is the
\* one the table pairs with the job's time of day.
C17_FiringChangesOnlyThatJob ==
    [][FiringStep =>
          /\ Fired \in DOMAIN jobs /\ jobs[Fired] <= clock
          /\ DOMAIN jobs' = DOMAIN jobs
          /\ \A k \in DOMAIN jobs \ {Fired} : jobs'[k] = jobs[k]
          /\ notifier' = notifier
          /\ notifier = TelegramNotifier(config.token.value, config.chat.value)
          /\ config' = config
          /\ last'.caller = "job" /\ last'.job = Fired
          /\ last'.message = REMINDER_MESSAGES[Fired]]_vars

\* C17 witness: one job of a poll has fired and moved to its next occurrence
\* while another job of the same poll is still due
C17_Witness ==
    /\ pc = "run_job"
    /\ Len(poll.sent) = 1
    /\ jobs[poll.sent[1]] > clock
    /\ jobs[Head(runnable)] <= poll.start
    /\ last.message = REMINDER_MESSAGES[poll.sent[1]]


\* what is left of the for loop: the indexes not yet entered, and the return
Variant == (snd.max_retries - snd.attempt) + (IF snd.status = "running" THEN 1 ELSE 0)

\* C18: send() always terminates and issues at most max_retries requests,
\* for every max_retries >= 0 and every sequence of outcomes, a 429 to every
\* request included; with max_retries = 0 it issues no request and returns
\* false.
C18_TerminatesWithinBudget ==
    /\ [](/\ Requests <= snd.max_retries
          /\ Variant \in 0..(snd.max_retries + 1)
          /\ (snd.status = "running" /\ snd.attempt >= snd.max_retries) =>
                ENABLED SendExhausted
          /\ (snd.status = "running" /\ snd.attempt < snd.max_retries) =>
                ENABLED SendAttempt
          /\ (snd.max_retries = 0 /\ snd.status # "running") =>
                /\ Requests = 0 /\ snd.sleeps = <<>>
                /\ snd.status = "returned" /\ ~snd.result)
    /\ [][/\ snd.status = "running"
          /\ Variant' < Variant
          /\ Len(snd'.outs) <= Len(snd.outs) + 1]_vars

\* C18 witness: three attempts, each answered by HTTP 429, and the call is over
C18_Witness ==
    /\ snd.max_retries = 3 /\ Requests = 3
    /\ \A k \in 1..3 : IsRateLimited(snd.outs[k])
    /\ snd.status = "returned" /\ ~snd.result


\* C19: every sleep made inside send(), backoff or rate-limit wait, is
\* followed by another request of the same call: a finished call has made a
\* request in the attempt after each of its sleeps.
C19_EverySleepFollowedByAttempt ==
    snd.status # "running" =>
        \A i \in 1..Len(snd.sleeps) : snd.sleeps[i].attempt + 2 <= Requests


InRunLoop == pc \in {"while", "run_job", "sleep"}

\* C20: a shutdown signal delivered at any point after construction, during
\* validation, the start-up test send, a poll or the sleep between polls,
\* stops the run loop: once the signal handler has run the loop flag stays
\* false, so the loop finishes at most the poll and sleep in progress, starts
\* no further poll and exits; the request is never lost.
C20_ShutdownRequestKept ==
    signalled => (InRunLoop => ~running)

====
